---------------------------- MODULE Spec2Model ----------------------------
(* A model of the C binding layer of taskchampion (taskchampion/lib/src):  *)
(* server.rs, string.rs, uda.rs and util.rs.  Values that cross the        *)
(* boundary are modelled with their ownership: every owned buffer is a     *)
(* cell of heap, every server box a cell of servers.                       *)
EXTENDS Integers, Sequences, FiniteSets, TLC

(***************************************************************************)
(* Bounds of the model.                                                    *)
(***************************************************************************)
MaxAddr == 4
MaxServers == 2
MaxLen == 2
MaxElems == 2
MaxDay == 8

NULL == 0
Addr == 1..MaxAddr
ServerId == 1..MaxServers

(***************************************************************************)
(* Bytes.  The alphabet holds NUL, an ASCII letter and the two bytes of a   *)
(* two-byte UTF-8 sequence (C3 A9), each of which is invalid on its own.   *)
(***************************************************************************)
Byte == {0, 97, 169, 195}

RECURSIVE SeqsUpTo(_, _)
SeqsUpTo(S, n) ==
    IF n = 0 THEN {<<>>}
    ELSE LET shorter == SeqsUpTo(S, n - 1)
         IN  shorter \cup {Append(s, b) : s \in {t \in shorter : Len(t) = n - 1}, b \in S}

ByteSeqs == SeqsUpTo(Byte, MaxLen)

\* const INVALID_UTF8: &[u8] = b"abc\xf0\x28\x8c\x28";
INVALID_UTF8 == <<97, 98, 99, 240, 40, 140, 40>>

\* "a string" and "a \0 nul!" of the tests, kept short: "a s" and "a\0!"
A_STRING == <<97, 32, 115>>
A_NUL_STRING == <<97, 0, 33>>

HasNul(bytes) == \E i \in 1..Len(bytes) : bytes[i] = 0

\* The index of the first NUL of bytes, or Len(bytes) + 1.
RECURSIVE FirstNul(_, _)
FirstNul(bytes, i) ==
    IF i > Len(bytes) THEN i
    ELSE IF bytes[i] = 0 THEN i
    ELSE FirstNul(bytes, i + 1)

\* The C string a pointer to these bytes denotes: the bytes before the
\* first NUL (the memory behind the pointer ends with a NUL).
CStrAt(mem) == SubSeq(mem, 1, FirstNul(mem, 1) - 1)

(***************************************************************************)
(* UTF-8 validation, as core::str::from_utf8 performs it.                  *)
(***************************************************************************)
IsCont(b) == b >= 128 /\ b <= 191

utf8_char_width(b) ==
    IF b < 128 THEN 1
    ELSE IF b >= 194 /\ b <= 223 THEN 2
    ELSE IF b >= 224 /\ b <= 239 THEN 3
    ELSE IF b >= 240 /\ b <= 244 THEN 4
    ELSE 0

\* Is the character starting at index i well-formed?
CharOk(bytes, i) ==
    LET first == bytes[i]
        w == utf8_char_width(first)
        at(k) == IF i + k <= Len(bytes) THEN bytes[i + k] ELSE 0
    IN  CASE w = 1 -> TRUE
          [] w = 2 -> IsCont(at(1))
          [] w = 3 -> /\ \/ first = 224 /\ at(1) >= 160 /\ at(1) <= 191
                         \/ first >= 225 /\ first <= 236 /\ IsCont(at(1))
                         \/ first = 237 /\ at(1) >= 128 /\ at(1) <= 159
                         \/ first >= 238 /\ first <= 239 /\ IsCont(at(1))
                      /\ IsCont(at(2))
          [] w = 4 -> /\ \/ first = 240 /\ at(1) >= 144 /\ at(1) <= 191
                         \/ first >= 241 /\ first <= 243 /\ IsCont(at(1))
                         \/ first = 244 /\ at(1) >= 128 /\ at(1) <= 143
                      /\ IsCont(at(2))
                      /\ IsCont(at(3))
          [] OTHER -> FALSE

\* The number of leading bytes of bytes that are valid UTF-8, scanning from
\* index i (Utf8Error::valid_up_to when it is less than the length).
RECURSIVE run_utf8_validation(_, _)
run_utf8_validation(bytes, i) ==
    IF i > Len(bytes) THEN Len(bytes)
    ELSE IF CharOk(bytes, i)
         THEN run_utf8_validation(bytes, i + utf8_char_width(bytes[i]))
         ELSE i - 1

valid_up_to(bytes) == run_utf8_validation(bytes, 1)

\* std::str::from_utf8: Ok(text) or Err(Utf8Error { valid_up_to }).
from_utf8(bytes) ==
    IF valid_up_to(bytes) = Len(bytes)
    THEN [ok |-> TRUE, text |-> bytes, valid_up_to |-> Len(bytes)]
    ELSE [ok |-> FALSE, text |-> <<>>, valid_up_to |-> valid_up_to(bytes)]

(***************************************************************************)
(* TCString (ffizz_string::fz_string_t holding an FzString).  CString and  *)
(* CStr keep their content followed by the terminating NUL; String and     *)
(* Bytes keep the content alone.  buf is the heap cell of an owned         *)
(* variant's buffer, NULL for a borrowed or Null one.                      *)
(***************************************************************************)
FzNull == [tag |-> "Null", data |-> <<>>, buf |-> NULL]
Uninit == [tag |-> "Uninit", data |-> <<>>, buf |-> NULL]

FzCStr(content) == [tag |-> "CStr", data |-> Append(content, 0), buf |-> NULL]
FzCString(content, a) == [tag |-> "CString", data |-> Append(content, 0), buf |-> a]
FzOwnedString(content, a) == [tag |-> "String", data |-> content, buf |-> a]
FzBytes(content, a) == [tag |-> "Bytes", data |-> content, buf |-> a]

IsOwned(s) == s.tag \in {"CString", "String", "Bytes"}

(***************************************************************************)
(* The heap of string and list buffers.  An allocation is never given the  *)
(* identity of an earlier one, so a cell tells the whole story of one      *)
(* allocation: not yet made, live, or released (and how many times).       *)
(***************************************************************************)
FreeCell == [st |-> "unalloc", drops |-> 0]
EmptyHeap == [a \in Addr |-> FreeCell]

Unalloc(h) == {a \in Addr : h[a].st = "unalloc"}
HasRoom(h, n) == Cardinality(Unalloc(h)) >= n

\* The next allocation: the lowest cell not yet used.
NewAddr(h) == CHOOSE a \in Unalloc(h) : \A b \in Unalloc(h) : a <= b

Alloc(h, a) == [h EXCEPT ![a] = [st |-> "live", drops |-> 0]]

Release(h, a) == [h EXCEPT ![a] = [st |-> "released", drops |-> @.drops + 1]]

IsLive(h, a) == h[a].st = "live"
ReleasedOnce(h, a) == h[a].st = "released" /\ h[a].drops = 1

\* drop(FzString): releases the buffer of an owned variant.
DropFz(h, s) == IF IsOwned(s) THEN Release(h, s.buf) ELSE h

\* The allocation a constructor makes for the value it returns.
AllocFor(h, s) == IF IsOwned(s) THEN Alloc(h, s.buf) ELSE h

(***************************************************************************)
(* FzString accessors and conversions.                                     *)
(***************************************************************************)
\* FzString::as_bytes: the content without any terminator.
as_bytes(s) ==
    CASE s.tag = "CString" -> SubSeq(s.data, 1, Len(s.data) - 1)
      [] s.tag = "CStr" -> SubSeq(s.data, 1, Len(s.data) - 1)
      [] s.tag = "String" -> s.data
      [] s.tag = "Bytes" -> s.data
      [] OTHER -> <<>>

\* as_str validating only the bytes before the first NUL.
as_str_to_nul(s) ==
    IF s.tag = "String"
    THEN [ok |-> TRUE, text |-> s.data, valid_up_to |-> Len(s.data)]
    ELSE from_utf8(CStrAt(s.data))

\* FzString::as_str: Ok(text) or Err(Utf8Error); a String is text already
\* and is not validated again.
as_str(s) ==
    CASE s.tag = "CString" -> from_utf8(SubSeq(s.data, 1, Len(s.data) - 1))
      [] s.tag = "CStr" -> from_utf8(SubSeq(s.data, 1, Len(s.data) - 1))
      [] s.tag = "String" -> [ok |-> TRUE, text |-> s.data, valid_up_to |-> Len(s.data)]
      [] s.tag = "Bytes" -> from_utf8(s.data)
      [] OTHER -> [ok |-> TRUE, text |-> <<>>, valid_up_to |-> 0]

\* string_to_cstring converting every String, cut at its first NUL.
string_to_cstring_any(s) ==
    IF s.tag = "String" THEN FzCString(CStrAt(s.data), s.buf) ELSE s

\* FzString::string_to_cstring: a String without a NUL byte becomes a
\* CString of the same content, in place; every other value stays as it is.
string_to_cstring(s) ==
    IF s.tag = "String" /\ ~HasNul(s.data) THEN FzCString(s.data, s.buf) ELSE s

\* FzString::into_string (and into_path_buf): Err on invalid UTF-8,
\* Ok(None) for Null, Ok(Some(text)) otherwise.  Consumes the string.
into_string(s) ==
    IF s.tag = "Null" THEN [ok |-> TRUE, some |-> FALSE, text |-> <<>>]
    ELSE [ok |-> as_str(s).ok, some |-> as_str(s).ok, text |-> as_str(s).text]

(***************************************************************************)
(* Constructors of string.rs.  mem is the memory behind the C pointer; h   *)
(* the heap the new buffer is taken from.                                  *)
(***************************************************************************)
tc_string_null == FzNull

tc_string_borrow(mem) == FzCStr(CStrAt(mem))

tc_string_clone(mem, h) == FzCString(CStrAt(mem), NewAddr(h))

tc_string_clone_with_len(mem, len, h) ==
    LET vec == SubSeq(mem, 1, len)
    IN  IF from_utf8(vec).ok
        THEN FzOwnedString(vec, NewAddr(h))
        ELSE FzBytes(vec, NewAddr(h))

\* tc_string_is_null testing for empty content instead of the variant.
tc_string_is_null_empty(s) == as_bytes(s) = <<>>

tc_string_is_null(s) == s.tag = "Null"

(***************************************************************************)
(* State.                                                                  *)
(*   heap       the string and list buffers                                *)
(*   servers    the boxed TCServer allocations                             *)
(*   returned   the server handles constructor calls returned non-NULL     *)
(*   freed      the server handles the caller passed to tc_server_free     *)
(*   error_out  the caller's slot for error messages                       *)
(*   lastCall   what the last call was given and what it gave back         *)
(*   aborted    a panic reached the extern "C" boundary                    *)
(*   arrays     the content of the array behind each list buffer           *)
(*   tcstrings  the caller's TCStringList struct                           *)
(*   tcudas     the caller's TCUdaList struct                              *)
(*   tcuda      the caller's TCUda struct                                  *)
(*   tcstring   the caller's TCString                                      *)
(*   given      the constructor and the bytes tcstring was made from       *)
(*   log        the releases the last call performed, in order             *)
(***************************************************************************)
VARIABLES heap, servers, returned, freed, error_out, lastCall, aborted,
          arrays, tcstrings, tcudas, tcuda, tcstring, given, log

serverState == <<servers, returned, freed, error_out, aborted>>
valueState == <<arrays, tcstrings, tcudas, tcuda, tcstring, given, log>>

NoCall == [op |-> "none"]

(***************************************************************************)
(* server.rs                                                               *)
(***************************************************************************)
NoServer == [st |-> "unalloc", drops |-> 0]

LiveServers(sv) == {i \in ServerId : sv[i].st = "live"}
UnallocServers(sv) == {i \in ServerId : sv[i].st = "unalloc"}

\* TCServer::return_ptr: box the server, hand out the pointer.
NewServer(sv) == CHOOSE i \in UnallocServers(sv) : \A j \in UnallocServers(sv) : i <= j
return_ptr(sv, i) == [sv EXCEPT ![i] = [st |-> "live", drops |-> 0]]

\* TCServer::take_from_ptr_arg followed by drop.
drop_server(sv, i) == [sv EXCEPT ![i] = [st |-> "dropped", drops |-> @.drops + 1]]

\* The text of an error (e.to_string()).
to_string(e) == IF e = "InvalidUTF8" THEN <<117, 116, 102>> ELSE <<115, 114, 118>>

\* util.rs: err_to_fzstring
err_to_fzstring(e, h) == FzOwnedString(to_string(e), NewAddr(h))

\* wrap with the store to *error_out of the Ok arm left out.
wrap_ok_unwritten(r, error_null, err_value, slot, h) ==
    IF r.outcome = "ok"
    THEN [ret |-> r.value, slot |-> slot, writes |-> 0, heap |-> h]
    ELSE [ret |-> err_value,
          slot |-> IF error_null THEN slot ELSE err_to_fzstring(r.err, h),
          writes |-> IF error_null THEN 0 ELSE 1,
          heap |-> IF error_null THEN h ELSE Alloc(h, NewAddr(h))]

\* wrap with the Err arm storing the Null string: the failure is returned
\* but its message is not.
wrap_err_null(r, error_null, err_value, slot, h) ==
    IF r.outcome = "ok"
    THEN [ret |-> r.value,
          slot |-> IF error_null THEN slot ELSE FzNull,
          writes |-> IF error_null THEN 0 ELSE 1,
          heap |-> h]
    ELSE [ret |-> err_value,
          slot |-> IF error_null THEN slot ELSE FzNull,
          writes |-> IF error_null THEN 0 ELSE 1,
          heap |-> h]

\* wrap: r is the result of the body, slot the content of *error_out
\* before the call.  Gives the returned value, the content of the slot
\* after the call, the number of stores to the slot and the heap.
wrap(r, error_null, err_value, slot, h) ==
    IF r.outcome = "ok"
    THEN [ret |-> r.value,
          slot |-> IF error_null THEN slot ELSE FzNull,
          writes |-> IF error_null THEN 0 ELSE 1,
          heap |-> h]
    ELSE [ret |-> err_value,
          slot |-> IF error_null THEN slot ELSE err_to_fzstring(r.err, h),
          writes |-> IF error_null THEN 0 ELSE 1,
          heap |-> IF error_null THEN h ELSE Alloc(h, NewAddr(h))]

\* The closure of tc_server_new_local.  srvOk: does into_server succeed.
new_local_body(server_dir, srvOk, h, sv) ==
    LET path == into_string(server_dir)
        h1 == DropFz(h, server_dir)
    IN  IF ~path.ok
        THEN [outcome |-> "err", err |-> "InvalidUTF8", value |-> NULL, heap |-> h1, servers |-> sv]
        ELSE IF ~path.some
        THEN [outcome |-> "panic", err |-> "none", value |-> NULL, heap |-> h1, servers |-> sv]
        ELSE IF ~srvOk
        THEN [outcome |-> "err", err |-> "Server", value |-> NULL, heap |-> h1, servers |-> sv]
        ELSE [outcome |-> "ok", err |-> "none", value |-> NewServer(sv), heap |-> h1,
              servers |-> return_ptr(sv, NewServer(sv))]

\* The closure of tc_server_new_remote.
new_remote_body(origin, encryption_secret, srvOk, h, sv) ==
    LET o == into_string(origin)
        h1 == DropFz(h, origin)
        h2 == DropFz(h1, encryption_secret)
    IN  IF ~o.ok
        THEN [outcome |-> "err", err |-> "InvalidUTF8", value |-> NULL, heap |-> h1, servers |-> sv]
        ELSE IF ~o.some
        THEN [outcome |-> "panic", err |-> "none", value |-> NULL, heap |-> h1, servers |-> sv]
        ELSE IF encryption_secret.tag = "Null"
        THEN [outcome |-> "panic", err |-> "none", value |-> NULL, heap |-> h2, servers |-> sv]
        ELSE IF ~srvOk
        THEN [outcome |-> "err", err |-> "Server", value |-> NULL, heap |-> h2, servers |-> sv]
        ELSE [outcome |-> "ok", err |-> "none", value |-> NewServer(sv), heap |-> h2,
              servers |-> return_ptr(sv, NewServer(sv))]

\* The strings a caller makes to pass as arguments.
ArgKind == {"null", "borrow", "clone", "clone_with_len"}
ArgMem == {A_STRING, <<240, 40>>}

MakeString(k, mem, h) ==
    CASE k = "null" -> tc_string_null
      [] k = "borrow" -> tc_string_borrow(mem)
      [] k = "clone" -> tc_string_clone(mem, h)
      [] OTHER -> tc_string_clone_with_len(mem, Len(mem), h)

\* The caller may pass &error_out when the slot holds no string it owns.
SlotFree == ~IsOwned(error_out)

\* The effect of a constructor call whose body gave r.
Finish(op, args, error_null, r) ==
    IF r.outcome = "panic"
    THEN /\ aborted' = TRUE
         /\ heap' = r.heap
         /\ lastCall' = [op |-> op, args |-> args, error_null |-> error_null,
                         outcome |-> "panic", err |-> r.err, value |-> NULL,
                         ret |-> NULL, writes |-> 0]
         /\ UNCHANGED <<servers, returned, freed, error_out>>
         /\ UNCHANGED valueState
    ELSE LET w == wrap(r, error_null, NULL, error_out, r.heap)
         IN  /\ heap' = w.heap
             /\ servers' = r.servers
             /\ returned' = IF w.ret = NULL THEN returned ELSE returned \cup {w.ret}
             /\ error_out' = w.slot
             /\ lastCall' = [op |-> op, args |-> args, error_null |-> error_null,
                             outcome |-> r.outcome, err |-> r.err, value |-> r.value,
                             ret |-> w.ret, writes |-> w.writes]
             /\ UNCHANGED <<freed, aborted>>
             /\ UNCHANGED valueState

tc_server_new_local ==
    /\ ~aborted
    /\ HasRoom(heap, 2)
    /\ \E k \in ArgKind, mem \in ArgMem, error_null \in BOOLEAN, srvOk \in BOOLEAN :
          /\ error_null \/ SlotFree
          /\ srvOk => UnallocServers(servers) # {}
          /\ LET server_dir == MakeString(k, mem, heap)
                 h0 == AllocFor(heap, server_dir)
             IN  Finish("tc_server_new_local", <<server_dir>>, error_null,
                        new_local_body(server_dir, srvOk, h0, servers))

tc_server_new_remote ==
    /\ ~aborted
    /\ HasRoom(heap, 3)
    /\ \E k1 \in ArgKind, k2 \in ArgKind, m1 \in ArgMem, m2 \in ArgMem,
          error_null \in BOOLEAN, srvOk \in BOOLEAN :
          /\ error_null \/ SlotFree
          /\ srvOk => UnallocServers(servers) # {}
          /\ LET origin == MakeString(k1, m1, heap)
                 h0 == AllocFor(heap, origin)
                 encryption_secret == MakeString(k2, m2, h0)
                 h1 == AllocFor(h0, encryption_secret)
             IN  Finish("tc_server_new_remote", <<origin, encryption_secret>>, error_null,
                        new_remote_body(origin, encryption_secret, srvOk, h1, servers))

\* tc_server_free that takes the pointer and forgets the server.
tc_server_free_forget ==
    /\ ~aborted
    /\ \E server \in returned \ freed :
          /\ freed' = freed \cup {server}
          /\ lastCall' = [op |-> "tc_server_free", args |-> <<server>>, error_null |-> TRUE,
                          outcome |-> "ok", err |-> "none", value |-> NULL,
                          ret |-> NULL, writes |-> 0]
    /\ UNCHANGED <<heap, servers, returned, error_out, aborted>>
    /\ UNCHANGED valueState

tc_server_free ==
    /\ ~aborted
    /\ \E server \in returned \ freed :
          /\ servers' = drop_server(servers, server)
          /\ freed' = freed \cup {server}
          /\ lastCall' = [op |-> "tc_server_free", args |-> <<server>>, error_null |-> TRUE,
                          outcome |-> "ok", err |-> "none", value |-> NULL,
                    ret |-> NULL, writes |-> 0]
    /\ UNCHANGED <<heap, returned, error_out, aborted>>
    /\ UNCHANGED valueState

\* The caller releases the message it was given: tc_string_free(&error_out)
\* takes the string out of the slot, leaving Null, and drops it.
tc_string_free_error ==
    /\ ~aborted
    /\ error_out.tag # "Uninit"
    /\ heap' = DropFz(heap, error_out)
    /\ error_out' = FzNull
    /\ lastCall' = [op |-> "tc_string_free", args |-> <<error_out>>, error_null |-> TRUE,
                    outcome |-> "ok", err |-> "none", value |-> NULL,
                    ret |-> NULL, writes |-> 0]
    /\ UNCHANGED <<servers, returned, freed, aborted>>
    /\ UNCHANGED valueState

vars == <<heap, servers, returned, freed, error_out, lastCall, aborted,
          arrays, tcstrings, tcudas, tcuda, tcstring, given, log>>

\* The state before any call: nothing allocated, the caller's structs not
\* yet initialized.
NoList == [len |-> 0, capacity |-> 0, items |-> NULL]
NoUda == [ns |-> Uninit, key |-> Uninit, value |-> Uninit]
NotGiven == [by |-> "none", bytes |-> <<>>]

Idle ==
    /\ heap = EmptyHeap
    /\ servers = [i \in ServerId |-> NoServer]
    /\ returned = {}
    /\ freed = {}
    /\ error_out = Uninit
    /\ lastCall = NoCall
    /\ aborted = FALSE
    /\ arrays = [a \in Addr |-> <<>>]
    /\ tcstrings = NoList
    /\ tcudas = NoList
    /\ tcuda = NoUda
    /\ tcstring = Uninit
    /\ given = NotGiven
    /\ log = <<>>

(***************************************************************************)
(* The server constructors and tc_server_free, under a caller that frees   *)
(* every handle it was given once.                                         *)
(***************************************************************************)
InitServer == Idle

NextServer ==
    \/ tc_server_new_local
    \/ tc_server_new_remote
    \/ tc_server_free
    \/ tc_string_free_error

SpecServer == InitServer /\ [][NextServer]_vars

(***************************************************************************)
(* Claims about server.rs                                                  *)
(***************************************************************************)
IsConstructor(c) == c.op \in {"tc_server_new_local", "tc_server_new_remote"}

\* C1: a constructor call given a non-NULL error_out stores to it exactly
\* once: when the body succeeds the slot holds the Null string and the
\* body's value is returned; when the body fails the slot holds a string
\* with the text of the error and NULL is returned.
C1_ErrorOutConvention ==
    (IsConstructor(lastCall) /\ ~lastCall.error_null) =>
        /\ lastCall.outcome = "ok" =>
              /\ error_out = FzNull
              /\ lastCall.ret = lastCall.value
              /\ lastCall.ret # NULL
              /\ lastCall.writes = 1
        /\ lastCall.outcome = "err" =>
              /\ error_out.tag = "String"
              /\ as_bytes(error_out) = to_string(lastCall.err)
              /\ IsLive(heap, error_out.buf)
              /\ lastCall.ret = NULL
              /\ lastCall.writes = 1

C1_Witness ==
    /\ IsConstructor(lastCall)
    /\ ~lastCall.error_null
    /\ lastCall.outcome = "err"
    /\ error_out.tag = "String"
    /\ returned # {}

\* C2: when tc_server_new_remote returns, on every outcome, both origin
\* and encryption_secret have been taken from the caller and released.
C2_RemoteConsumesBoth ==
    (lastCall.op = "tc_server_new_remote" /\ lastCall.outcome \in {"ok", "err"}) =>
        \A i \in 1..2 :
            IsOwned(lastCall.args[i]) => ReleasedOnce(heap, lastCall.args[i].buf)

\* C3: under a caller that frees each returned handle once, the live
\* server allocations are the handles returned non-NULL and not yet freed,
\* every freed one was dropped exactly once, and a call that failed
\* returned NULL and left no allocation behind.
C3_ServerOwnership ==
    /\ LiveServers(servers) = returned \ freed
    /\ freed \subseteq returned
    /\ \A i \in ServerId :
          /\ servers[i].drops <= 1
          /\ i \in freed <=> (servers[i].st = "dropped" /\ servers[i].drops = 1)
          /\ i \notin returned => servers[i].st = "unalloc"
    /\ (IsConstructor(lastCall) /\ lastCall.outcome = "err") => lastCall.ret = NULL

C3_Witness ==
    /\ freed # {}
    /\ returned \ freed # {}
    /\ IsConstructor(lastCall)
    /\ lastCall.outcome = "err"

\* C14: when tc_server_new_local or tc_server_new_remote returns and was
\* given a non-NULL error_out, the handle returned is NULL exactly when
\* error_out holds a string that is not Null: a success never returns NULL
\* and a failure never returns a live handle.
C14_NullIffError ==
    (IsConstructor(lastCall) /\ ~lastCall.error_null /\ lastCall.outcome # "panic") =>
        /\ lastCall.ret = NULL <=> error_out.tag \notin {"Null", "Uninit"}
        /\ lastCall.outcome = "ok" =>
              /\ lastCall.ret \in ServerId
              /\ servers[lastCall.ret].st = "live"
        /\ lastCall.outcome = "err" =>
              /\ lastCall.ret \notin LiveServers(servers)
              /\ lastCall.ret = NULL

C14_Witness ==
    /\ lastCall.op = "tc_server_new_remote"
    /\ ~lastCall.error_null
    /\ lastCall.outcome = "ok"
    /\ lastCall.ret \in LiveServers(servers)
    /\ error_out = FzNull
    /\ freed # {}

(***************************************************************************)
(* Vec<T> and the raw lists built from it (util.rs, CList).                *)
(***************************************************************************)
\* NonNull::dangling(): the pointer of a Vec that has allocated nothing.
Dangling == MaxAddr + 8

VecNew == [ptr |-> Dangling, cap |-> 0, elems |-> <<>>]
VecOf(elems, cap, a) == [ptr |-> a, cap |-> cap, elems |-> elems]

\* Dropping a Vec whose elements have no destructor of their own (TCString
\* and TCUda are plain structs): the buffer is released when there is one.
drop_vec(vec, h) == IF vec.cap > 0 THEN Release(h, vec.ptr) ELSE h

\* vec_into_raw_parts without the ManuallyDrop: the Vec is dropped when the
\* function returns.
vec_into_raw_parts_dropping(vec, h) ==
    [ptr |-> vec.ptr, len |-> Len(vec.elems), cap |-> vec.cap, heap |-> drop_vec(vec, h)]

\* util.rs: vec_into_raw_parts.  Gives ptr, len, cap and the heap after.
vec_into_raw_parts(vec, h) ==
    [ptr |-> vec.ptr, len |-> Len(vec.elems), cap |-> vec.cap, heap |-> h]

\* CList::from_raw_parts of TCStringList and TCUdaList.
from_raw_parts(items, len, cap) == [len |-> len, capacity |-> cap, items |-> items]

\* CList::into_raw_parts
into_raw_parts(list) == <<list.items, list.len, list.capacity>>

\* CList::return_val: the list handed to the caller for an owned Vec.
return_val(vec, h) ==
    LET p == vec_into_raw_parts(vec, h)
    IN  [list |-> from_raw_parts(p.ptr, p.len, p.cap), heap |-> p.heap]

\* CList::take_val_from_arg: the Vec rebuilt from the caller's struct, the
\* struct left holding the replacement.
CList_take_val_from_arg(list, replacement, arr) ==
    LET parts == into_raw_parts(list)
    IN  [vec |-> [ptr |-> parts[1], cap |-> parts[3],
                  elems |-> IF parts[1] \in Addr
                            THEN SubSeq(arr[parts[1]], 1, parts[2])
                            ELSE <<>>],
         slot |-> replacement]

\* The strings of a list under construction, each made by one of the
\* constructors, in order.
ElemKind == {"null", "borrow", "clone"}

RECURSIVE MakeElems(_, _, _)
MakeElems(kinds, i, acc) ==
    IF i > Len(kinds) THEN acc
    ELSE LET e == MakeString(kinds[i], A_STRING, acc.heap)
         IN  MakeElems(kinds, i + 1,
                       [elems |-> Append(acc.elems, e), heap |-> AllocFor(acc.heap, e)])

Owned(elems) == {i \in 1..Len(elems) : IsOwned(elems[i])}

ElemKindSeqs == SeqsUpTo(ElemKind, MaxElems)

\* A function of the library returns a list of strings to the caller.
string_list_return_val ==
    /\ tcstrings.items = NULL
    /\ \E kinds \in ElemKindSeqs, spare \in 0..1 :
          /\ Len(kinds) = 0 => spare = 0
          /\ HasRoom(heap, Len(kinds) + 1)
          /\ LET built == MakeElems(kinds, 1, [elems |-> <<>>, heap |-> heap])
                 vec == IF Len(kinds) = 0 THEN VecNew
                        ELSE VecOf(built.elems, Len(kinds) + spare, NewAddr(built.heap))
                 h1 == IF Len(kinds) = 0 THEN built.heap ELSE Alloc(built.heap, vec.ptr)
                 r == return_val(vec, h1)
             IN  /\ tcstrings' = r.list
                 /\ heap' = r.heap
                 /\ arrays' = IF Len(kinds) = 0 THEN arrays
                              ELSE [arrays EXCEPT ![vec.ptr] = vec.elems]
                 /\ lastCall' = [op |-> "string_list_return_val", elems |-> vec.elems,
                                 list |-> r.list]
    /\ log' = <<>>
    /\ UNCHANGED <<tcudas, tcuda, tcstring, given>>
    /\ UNCHANGED serverState

Elem(i) == [ev |-> "elem", at |-> i]
Buf(a) == [ev |-> "buf", at |-> a]

\* for e in vec.drain(..) { drop(FzString::take(e)) }
RECURSIVE drain_strings(_, _, _)
drain_strings(elems, i, acc) ==
    IF i > Len(elems) THEN acc
    ELSE drain_strings(elems, i + 1,
                       [heap |-> DropFz(acc.heap, elems[i]),
                        log |-> Append(acc.log, Elem(i))])

\* The same loop taking the elements from the back.
RECURSIVE drain_strings_rev(_, _, _)
drain_strings_rev(elems, i, acc) ==
    IF i > Len(elems) THEN acc
    ELSE LET j == Len(elems) + 1 - i
         IN  drain_strings_rev(elems, i + 1,
                               [heap |-> DropFz(acc.heap, elems[j]),
                                log |-> Append(acc.log, Elem(j))])

\* tc_string_list_free reading the list without putting null_vec in its place.
string_list_free_stale(list, arr, h) ==
    LET t == CList_take_val_from_arg(list, list, arr)
        d == drain_strings(t.vec.elems, 1, [heap |-> h, log |-> <<>>])
    IN  [slot |-> t.slot,
         heap |-> drop_vec(t.vec, d.heap),
         log |-> IF t.vec.cap > 0 THEN Append(d.log, Buf(t.vec.ptr)) ELSE d.log]

\* tc_string_list_free draining from the back.
string_list_free_rev(list, arr, h) ==
    LET null_vec == from_raw_parts(NULL, 0, 0)
        t == CList_take_val_from_arg(list, null_vec, arr)
        d == drain_strings_rev(t.vec.elems, 1, [heap |-> h, log |-> <<>>])
    IN  [slot |-> t.slot,
         heap |-> drop_vec(t.vec, d.heap),
         log |-> IF t.vec.cap > 0 THEN Append(d.log, Buf(t.vec.ptr)) ELSE d.log]

\* The body of tc_string_list_free: the struct after the call, the heap
\* after it, and the releases in the order they were made.
string_list_free(list, arr, h) ==
    LET null_vec == from_raw_parts(NULL, 0, 0)
        t == CList_take_val_from_arg(list, null_vec, arr)
        d == drain_strings(t.vec.elems, 1, [heap |-> h, log |-> <<>>])
    IN  [slot |-> t.slot,
         heap |-> drop_vec(t.vec, d.heap),
         log |-> IF t.vec.cap > 0 THEN Append(d.log, Buf(t.vec.ptr)) ELSE d.log]

tc_string_list_free ==
    /\ tcstrings.items # NULL
    /\ LET r == string_list_free(tcstrings, arrays, heap)
       IN  /\ tcstrings' = r.slot
           /\ heap' = r.heap
           /\ log' = r.log
           /\ arrays' = IF tcstrings.items \in Addr
                        THEN [arrays EXCEPT ![tcstrings.items] = <<>>]
                        ELSE arrays
           /\ lastCall' = [op |-> "tc_string_list_free", list |-> tcstrings,
                           elems |-> IF tcstrings.items \in Addr
                                     THEN arrays[tcstrings.items] ELSE <<>>]
    /\ UNCHANGED <<tcudas, tcuda, tcstring, given>>
    /\ UNCHANGED serverState

(***************************************************************************)
(* uda.rs                                                                  *)
(***************************************************************************)
\* impl Default for TCUda
TCUda_default == [ns |-> FzNull, key |-> FzNull, value |-> FzNull]

\* TCUda::from_ctype: each field is taken as an FzString.
from_ctype(u) == [ns |-> u.ns, key |-> u.key, value |-> u.value]

\* TCUda::as_ctype: each field is handed out with return_val.
as_ctype(u) == [ns |-> u.ns, key |-> u.key, value |-> u.value]

\* PassByValue::take_val_from_arg: swap the replacement into the caller's
\* struct and convert what was there.
PassByValue_take_val_from_arg(arg, replacement) ==
    [val |-> from_ctype(arg), slot |-> replacement]

\* drop(Uda): the fields are dropped in declaration order.
drop_uda(u, h) == DropFz(DropFz(DropFz(h, u.ns), u.key), u.value)

UdaFields(u) == <<u.ns, u.key, u.value>>
OwnedFields(u) == {i \in 1..3 : IsOwned(UdaFields(u)[i])}

\* The kinds of the three strings of a record: ns may be Null, key and
\* value may not.
UdaKind == {k \in [1..3 -> ArgKind] : k[2] # "null" /\ k[3] # "null"}
NumOwned(k) == Cardinality({i \in 1..3 : k[i] \in {"clone", "clone_with_len"}})

MakeUda(k, h) ==
    LET ns == MakeString(k[1], A_STRING, h)
        h1 == AllocFor(h, ns)
        key == MakeString(k[2], A_STRING, h1)
        h2 == AllocFor(h1, key)
        value == MakeString(k[3], A_STRING, h2)
    IN  [uda |-> as_ctype([ns |-> ns, key |-> key, value |-> value]),
         heap |-> AllocFor(h2, value)]

HoldsNothing(u) == OwnedFields(u) = {}

\* A function of the library returns a record to the caller.
uda_return_val ==
    /\ HoldsNothing(tcuda)
    /\ \E k \in UdaKind :
          /\ HasRoom(heap, NumOwned(k))
          /\ LET m == MakeUda(k, heap)
             IN  /\ tcuda' = m.uda
                 /\ heap' = m.heap
                 /\ lastCall' = [op |-> "uda_return_val", uda |-> m.uda]
    /\ log' = <<>>
    /\ UNCHANGED <<arrays, tcstrings, tcudas, tcstring, given>>
    /\ UNCHANGED serverState

\* tc_uda_free with the record read but not replaced by the default.
uda_free_stale(u, h) ==
    LET t == PassByValue_take_val_from_arg(u, u)
    IN  [slot |-> t.slot, heap |-> drop_uda(t.val, h)]

\* tc_uda_free releasing through state shared by all values: every live
\* buffer goes, whoever owns it.
uda_free_arena(u, h) ==
    LET t == PassByValue_take_val_from_arg(u, TCUda_default)
    IN  [slot |-> t.slot,
         heap |-> [a \in Addr |-> IF IsLive(h, a)
                                  THEN [st |-> "released", drops |-> h[a].drops + 1]
                                  ELSE h[a]]]

\* tc_uda_free putting back a record that still has the namespace: only
\* key and value are reset.
uda_free_keep_ns(u, h) ==
    LET t == PassByValue_take_val_from_arg(u, [TCUda_default EXCEPT !.ns = u.ns])
    IN  [slot |-> t.slot, heap |-> drop_uda(t.val, h)]

\* The body of tc_uda_free.
uda_free(u, h) ==
    LET t == PassByValue_take_val_from_arg(u, TCUda_default)
    IN  [slot |-> t.slot, heap |-> drop_uda(t.val, h)]

tc_uda_free ==
    /\ tcuda.ns.tag # "Uninit"
    /\ LET r == uda_free(tcuda, heap)
       IN  /\ tcuda' = r.slot
           /\ heap' = r.heap
           /\ lastCall' = [op |-> "tc_uda_free", uda |-> tcuda, prev |-> lastCall.op]
    /\ log' = <<>>
    /\ UNCHANGED <<arrays, tcstrings, tcudas, tcstring, given>>
    /\ UNCHANGED serverState

\* The records of a list under construction, in order.
RECURSIVE MakeUdas(_, _, _)
MakeUdas(kinds, i, acc) ==
    IF i > Len(kinds) THEN acc
    ELSE LET m == MakeUda(kinds[i], acc.heap)
         IN  MakeUdas(kinds, i + 1, [elems |-> Append(acc.elems, m.uda), heap |-> m.heap])

RECURSIVE SumOwned(_, _)
SumOwned(kinds, i) ==
    IF i > Len(kinds) THEN 0 ELSE NumOwned(kinds[i]) + SumOwned(kinds, i + 1)

\* The records of the lists: legacy ones without a namespace and ones with
\* an owned namespace, the key borrowed or owned, the value owned.
ListUdaKind == {k \in UdaKind : k[1] \in {"null", "clone"} /\ k[2] \in {"borrow", "clone"}
                                /\ k[3] = "clone"}
UdaKindSeqs == SeqsUpTo(ListUdaKind, MaxElems)

\* A function of the library returns a list of records to the caller.
uda_list_return_val ==
    /\ tcudas.items = NULL
    /\ \E kinds \in UdaKindSeqs, spare \in 0..1 :
          /\ Len(kinds) = 0 => spare = 0
          /\ HasRoom(heap, SumOwned(kinds, 1) + 1)
          /\ LET built == MakeUdas(kinds, 1, [elems |-> <<>>, heap |-> heap])
                 vec == IF Len(kinds) = 0 THEN VecNew
                        ELSE VecOf(built.elems, Len(kinds) + spare, NewAddr(built.heap))
                 h1 == IF Len(kinds) = 0 THEN built.heap ELSE Alloc(built.heap, vec.ptr)
                 r == return_val(vec, h1)
             IN  /\ tcudas' = r.list
                 /\ heap' = r.heap
                 /\ arrays' = IF Len(kinds) = 0 THEN arrays
                              ELSE [arrays EXCEPT ![vec.ptr] = vec.elems]
                 /\ lastCall' = [op |-> "uda_list_return_val", elems |-> vec.elems,
                                 list |-> r.list]
    /\ log' = <<>>
    /\ UNCHANGED <<tcstrings, tcuda, tcstring, given>>
    /\ UNCHANGED serverState

\* for e in vec.drain(..) { drop(PassByValue::val_from_arg(e)) }
RECURSIVE drain_udas(_, _, _)
drain_udas(elems, i, acc) ==
    IF i > Len(elems) THEN acc
    ELSE drain_udas(elems, i + 1,
                    [heap |-> drop_uda(from_ctype(elems[i]), acc.heap),
                     log |-> Append(acc.log, Elem(i))])

\* traits.rs: drop_value_list, which tc_uda_list_free calls.
drop_value_list(list, arr, h) ==
    LET null_value == from_raw_parts(NULL, 0, 0)
        t == CList_take_val_from_arg(list, null_value, arr)
        d == drain_udas(t.vec.elems, 1, [heap |-> h, log |-> <<>>])
    IN  [slot |-> t.slot,
         heap |-> drop_vec(t.vec, d.heap),
         log |-> IF t.vec.cap > 0 THEN Append(d.log, Buf(t.vec.ptr)) ELSE d.log]

tc_uda_list_free ==
    /\ tcudas.items # NULL
    /\ LET r == drop_value_list(tcudas, arrays, heap)
       IN  /\ tcudas' = r.slot
           /\ heap' = r.heap
           /\ log' = r.log
           /\ arrays' = IF tcudas.items \in Addr
                        THEN [arrays EXCEPT ![tcudas.items] = <<>>]
                        ELSE arrays
           /\ lastCall' = [op |-> "tc_uda_list_free", list |-> tcudas,
                           elems |-> IF tcudas.items \in Addr
                                     THEN arrays[tcudas.items] ELSE <<>>]
    /\ UNCHANGED <<tcstrings, tcuda, tcstring, given>>
    /\ UNCHANGED serverState

(***************************************************************************)
(* Lists handed to a caller and freed by it.                               *)
(***************************************************************************)
InitLists == Idle

NextLists ==
    \/ string_list_return_val
    \/ tc_string_list_free
    \/ uda_list_return_val
    \/ tc_uda_list_free

SpecLists == InitLists /\ [][NextLists]_vars

(***************************************************************************)
(* Records handed to a caller and freed by it.                             *)
(***************************************************************************)
InitUda == Idle

NextUda ==
    \/ uda_return_val
    \/ tc_uda_free

SpecUda == InitUda /\ [][NextUda]_vars

(***************************************************************************)
(* Claims about lists and records                                          *)
(***************************************************************************)
\* The buffers the strings of the elements of a list own.
StringBufs(elems) == {elems[i].buf : i \in Owned(elems)}
UdaBufs(elems) ==
    UNION {{UdaFields(elems[i])[j].buf : j \in OwnedFields(elems[i])} : i \in 1..Len(elems)}

ElemBufs(c) ==
    IF c.op \in {"string_list_return_val", "tc_string_list_free"}
    THEN StringBufs(c.elems) ELSE UdaBufs(c.elems)

IsListReturn(c) == c.op \in {"string_list_return_val", "uda_list_return_val"}
IsListFree(c) == c.op \in {"tc_string_list_free", "tc_uda_list_free"}

\* The caller's struct the call was about.
ListOf(c) ==
    IF c.op \in {"string_list_return_val", "tc_string_list_free"} THEN tcstrings ELSE tcudas

\* C4: the list made from an owned sequence has a non-NULL items pointer
\* and the length of the sequence; made from the empty sequence it has
\* len = 0 and capacity = 0; the conversion releases nothing: every
\* element's buffer and the array itself are still live and were never
\* released.
C4_ReturnValNonNull ==
    IsListReturn(lastCall) =>
        /\ ListOf(lastCall) = lastCall.list
        /\ lastCall.list.items # NULL
        /\ lastCall.list.len = Len(lastCall.elems)
        /\ lastCall.list.capacity >= lastCall.list.len
        /\ Len(lastCall.elems) = 0 => (lastCall.list.len = 0 /\ lastCall.list.capacity = 0)
        /\ \A a \in ElemBufs(lastCall) : IsLive(heap, a) /\ heap[a].drops = 0
        /\ lastCall.list.items \in Addr =>
              /\ IsLive(heap, lastCall.list.items)
              /\ heap[lastCall.list.items].drops = 0
              /\ arrays[lastCall.list.items] = lastCall.elems
        /\ log = <<>>

C4_Witness ==
    /\ lastCall.op = "string_list_return_val"
    /\ lastCall.elems = <<>>
    /\ tcstrings.items = Dangling
    /\ tcudas.items \in Addr

\* C5: after tc_string_list_free or tc_uda_list_free on a valid list of
\* any length the caller's struct holds items = NULL, len = 0, capacity = 0.
C5_FreeSetsNull ==
    IsListFree(lastCall) =>
        /\ ListOf(lastCall).items = NULL
        /\ ListOf(lastCall).len = 0
        /\ ListOf(lastCall).capacity = 0

C5_Witness ==
    /\ lastCall.op = "tc_string_list_free"
    /\ lastCall.list.len >= 2
    /\ tcstrings = [len |-> 0, capacity |-> 0, items |-> NULL]

\* C6: freeing a list of N elements frees the elements once each, in index
\* order, and releases the array after the last of them, once.
C6_FreeInOrder ==
    IsListFree(lastCall) =>
        LET n == lastCall.list.len
            hasBuf == lastCall.list.capacity > 0
        IN  /\ Len(log) = n + (IF hasBuf THEN 1 ELSE 0)
            /\ \A i \in 1..n : log[i] = Elem(i)
            /\ hasBuf => /\ log[n + 1] = Buf(lastCall.list.items)
                         /\ ReleasedOnce(heap, lastCall.list.items)
            /\ \A a \in ElemBufs(lastCall) : ReleasedOnce(heap, a)

C6_Witness ==
    /\ lastCall.op = "tc_string_list_free"
    /\ lastCall.list.len >= 2
    /\ Owned(lastCall.elems) # {}
    /\ Len(log) = lastCall.list.len + 1

\* C7: tc_uda_free on a valid record releases each string the record owns
\* exactly once, leaves no buffer of it live, and leaves the caller's
\* struct holding the default record, whose three fields are Null.
C7_UdaFree ==
    lastCall.op = "tc_uda_free" =>
        /\ \A i \in OwnedFields(lastCall.uda) :
              ReleasedOnce(heap, UdaFields(lastCall.uda)[i].buf)
        /\ \A a \in Addr : ~IsLive(heap, a)
        /\ \A a \in Addr : heap[a].drops <= 1
        /\ tcuda = TCUda_default
        /\ \A i \in 1..3 : tc_string_is_null(UdaFields(tcuda)[i])

C7_Witness ==
    /\ lastCall.op = "tc_uda_free"
    /\ lastCall.uda.ns.tag = "Null"
    /\ IsOwned(lastCall.uda.key)
    /\ IsOwned(lastCall.uda.value)
    /\ tcuda = TCUda_default

\* C15: tc_uda_free is idempotent on a slot: a second tc_uda_free on the
\* slot the first one left releases no allocation and leaves the slot as
\* it was, with ns, key and value all Null.
C15_UdaFreeIdempotent ==
    [][(lastCall.op = "tc_uda_free" /\ lastCall'.op = "tc_uda_free") =>
          /\ heap' = heap
          /\ tcuda' = tcuda
          /\ \A f \in {"ns", "key", "value"} : tcuda'[f].tag = "Null"]_vars

C15_Witness ==
    /\ lastCall.op = "tc_uda_free"
    /\ lastCall.prev = "tc_uda_free"
    /\ lastCall.uda = tcuda
    /\ \A f \in {"ns", "key", "value"} : tcuda[f].tag = "Null"
    /\ \E a \in Addr : heap[a].st = "released" /\ heap[a].drops = 1

(***************************************************************************)
(* string.rs: one TCString of the caller, made, read and freed.            *)
(***************************************************************************)
\* The memory a caller passes: every short byte string and those of the tests.
Inputs == ByteSeqs \cup {INVALID_UTF8, A_STRING, A_NUL_STRING}

\* Where the content of a borrowed string lives.
Static == MaxAddr + 1

\* tc_string_content_with_len reading the content as a C string, up to the
\* first NUL.
tc_string_content_with_len_strlen(s) ==
    IF s.tag = "Null" THEN [ptr |-> NULL, len |-> 0, bytes |-> <<>>]
    ELSE [ptr |-> IF IsOwned(s) THEN s.buf ELSE Static,
          len |-> Len(CStrAt(as_bytes(s))),
          bytes |-> CStrAt(as_bytes(s))]

\* tc_string_content_with_len: the pointer returned, *len_out, and the len
\* bytes behind the pointer.
tc_string_content_with_len(s) ==
    IF s.tag = "Null" THEN [ptr |-> NULL, len |-> 0, bytes |-> <<>>]
    ELSE [ptr |-> IF IsOwned(s) THEN s.buf ELSE Static,
          len |-> Len(as_bytes(s)),
          bytes |-> as_bytes(s)]

Made(by, bytes, ret) == [op |-> by, ret |-> ret, prev |-> lastCall.op]

call_tc_string_null ==
    /\ ~IsOwned(tcstring)
    /\ tcstring' = tc_string_null
    /\ given' = [by |-> "tc_string_null", bytes |-> <<>>]
    /\ lastCall' = Made("tc_string_null", <<>>, tc_string_null)
    /\ UNCHANGED <<heap, arrays, tcstrings, tcudas, tcuda, log>>
    /\ UNCHANGED serverState

call_tc_string_borrow ==
    /\ ~IsOwned(tcstring)
    /\ \E cstr \in Inputs :
          /\ tcstring' = tc_string_borrow(cstr)
          /\ given' = [by |-> "tc_string_borrow", bytes |-> CStrAt(cstr)]
          /\ lastCall' = Made("tc_string_borrow", CStrAt(cstr), tc_string_borrow(cstr))
    /\ UNCHANGED <<heap, arrays, tcstrings, tcudas, tcuda, log>>
    /\ UNCHANGED serverState

call_tc_string_clone ==
    /\ ~IsOwned(tcstring)
    /\ HasRoom(heap, 1)
    /\ \E cstr \in Inputs :
          /\ tcstring' = tc_string_clone(cstr, heap)
          /\ given' = [by |-> "tc_string_clone", bytes |-> CStrAt(cstr)]
          /\ lastCall' = Made("tc_string_clone", CStrAt(cstr), tc_string_clone(cstr, heap))
    /\ heap' = Alloc(heap, NewAddr(heap))
    /\ UNCHANGED <<arrays, tcstrings, tcudas, tcuda, log>>
    /\ UNCHANGED serverState

call_tc_string_clone_with_len ==
    /\ ~IsOwned(tcstring)
    /\ HasRoom(heap, 1)
    /\ \E cstr \in Inputs :
          \E size \in 0..Len(cstr) :
             /\ tcstring' = tc_string_clone_with_len(cstr, size, heap)
             /\ given' = [by |-> "tc_string_clone_with_len", bytes |-> SubSeq(cstr, 1, size)]
             /\ lastCall' = Made("tc_string_clone_with_len", SubSeq(cstr, 1, size),
                                 tc_string_clone_with_len(cstr, size, heap))
    /\ heap' = Alloc(heap, NewAddr(heap))
    /\ UNCHANGED <<arrays, tcstrings, tcudas, tcuda, log>>
    /\ UNCHANGED serverState

\* The tests' make_bytes and make_invalid_bytes: a Bytes variant built
\* directly, whatever its content.
make_bytes ==
    /\ ~IsOwned(tcstring)
    /\ HasRoom(heap, 1)
    /\ \E content \in Inputs :
          /\ tcstring' = FzBytes(content, NewAddr(heap))
          /\ given' = [by |-> "make_bytes", bytes |-> content]
          /\ lastCall' = Made("make_bytes", content, FzBytes(content, NewAddr(heap)))
    /\ heap' = Alloc(heap, NewAddr(heap))
    /\ UNCHANGED <<arrays, tcstrings, tcudas, tcuda, log>>
    /\ UNCHANGED serverState

call_tc_string_is_null ==
    /\ tcstring.tag # "Uninit"
    /\ lastCall' = [op |-> "tc_string_is_null", ret |-> tc_string_is_null(tcstring),
                    prev |-> lastCall.op]
    /\ UNCHANGED <<heap, arrays, tcstrings, tcudas, tcuda, tcstring, given, log>>
    /\ UNCHANGED serverState

call_tc_string_content_with_len ==
    /\ tcstring.tag # "Uninit"
    /\ lastCall' = [op |-> "tc_string_content_with_len",
                    ret |-> tc_string_content_with_len(tcstring),
                    prev |-> lastCall.op]
    /\ UNCHANGED <<heap, arrays, tcstrings, tcudas, tcuda, tcstring, given, log>>
    /\ UNCHANGED serverState

\* The tests' x.as_str()
call_as_str ==
    /\ tcstring.tag \notin {"Uninit", "Null"}
    /\ lastCall' = [op |-> "as_str", ret |-> as_str(tcstring), prev |-> lastCall.op]
    /\ UNCHANGED <<heap, arrays, tcstrings, tcudas, tcuda, tcstring, given, log>>
    /\ UNCHANGED serverState

\* The tests' x.string_to_cstring()
call_string_to_cstring ==
    /\ tcstring.tag \notin {"Uninit", "Null"}
    /\ tcstring' = string_to_cstring(tcstring)
    /\ lastCall' = [op |-> "string_to_cstring", ret |-> string_to_cstring(tcstring),
                    before |-> tcstring, prev |-> lastCall.op]
    /\ UNCHANGED <<heap, arrays, tcstrings, tcudas, tcuda, given, log>>
    /\ UNCHANGED serverState

\* tc_string_free: the string is taken out of the caller's struct, which is
\* left Null, and dropped.
call_tc_string_free ==
    /\ tcstring.tag # "Uninit"
    /\ heap' = DropFz(heap, tcstring)
    /\ tcstring' = FzNull
    /\ given' = NotGiven
    /\ lastCall' = [op |-> "tc_string_free", ret |-> tcstring, prev |-> lastCall.op]
    /\ UNCHANGED <<arrays, tcstrings, tcudas, tcuda, log>>
    /\ UNCHANGED serverState

InitString == Idle

NextString ==
    \/ call_tc_string_null
    \/ call_tc_string_borrow
    \/ call_tc_string_clone
    \/ call_tc_string_clone_with_len
    \/ make_bytes
    \/ call_tc_string_is_null
    \/ call_tc_string_content_with_len
    \/ call_as_str
    \/ call_string_to_cstring
    \/ call_tc_string_free

SpecString == InitString /\ [][NextString]_vars

(***************************************************************************)
(* Claims about strings                                                    *)
(***************************************************************************)
\* C8: tc_string_is_null returns true for a value made by tc_string_null
\* and false for every value made by tc_string_borrow, tc_string_clone or
\* tc_string_clone_with_len, also one with empty content.
C8_IsNull ==
    lastCall.op = "tc_string_is_null" =>
        /\ given.by = "tc_string_null" => lastCall.ret = TRUE
        /\ given.by \in {"tc_string_borrow", "tc_string_clone", "tc_string_clone_with_len"}
              => lastCall.ret = FALSE

C8_Witness ==
    /\ lastCall.op = "tc_string_is_null"
    /\ given.by = "tc_string_clone_with_len"
    /\ given.bytes = <<>>
    /\ lastCall.ret = FALSE

\* C9: reading a string as bytes with length never fails: for every
\* variant but Null it returns a non-NULL pointer to exactly the bytes the
\* string was made from and their number; for Null it returns NULL and 0.
C9_ContentWithLen ==
    lastCall.op = "tc_string_content_with_len" =>
        IF tcstring.tag = "Null"
        THEN lastCall.ret.ptr = NULL /\ lastCall.ret.len = 0
        ELSE /\ lastCall.ret.ptr # NULL
             /\ lastCall.ret.bytes = given.bytes
             /\ lastCall.ret.len = Len(given.bytes)

C9_Witness ==
    /\ lastCall.op = "tc_string_content_with_len"
    /\ tcstring.tag = "String"
    /\ given.bytes = A_NUL_STRING
    /\ lastCall.ret.len = 3

\* Valid text over ASCII and the bytes C3, A9, said without the validator:
\* every C3 is followed by A9 and every A9 follows a C3.
OverAlphabet(b) == \A i \in 1..Len(b) : b[i] < 128 \/ b[i] \in {169, 195}
PairRule(b) ==
    \A i \in 1..Len(b) :
        /\ b[i] = 195 => (i < Len(b) /\ b[i + 1] = 169)
        /\ b[i] = 169 => (i > 1 /\ b[i - 1] = 195)
ValidPrefixes(b) == {k \in 0..Len(b) : PairRule(SubSeq(b, 1, k))}
LongestValidPrefix(b) == CHOOSE k \in ValidPrefixes(b) : \A j \in ValidPrefixes(b) : j <= k

\* C10: reading a string as text returns the bytes the string was made from
\* whenever they are valid text (an embedded NUL included); otherwise it
\* fails and reports the length of the longest valid prefix (3 for
\* INVALID_UTF8), the stored bytes are as before, and a read as bytes
\* after the failure returns the original bytes.
C10_AsStr ==
    /\ lastCall.op = "as_str" =>
          /\ lastCall.ret.ok => lastCall.ret.text = given.bytes
          /\ as_bytes(tcstring) = given.bytes
          /\ OverAlphabet(given.bytes) =>
                /\ lastCall.ret.ok <=> PairRule(given.bytes)
                /\ ~lastCall.ret.ok =>
                      lastCall.ret.valid_up_to = LongestValidPrefix(given.bytes)
          /\ given.bytes = INVALID_UTF8 =>
                (~lastCall.ret.ok /\ lastCall.ret.valid_up_to = 3)
    /\ (lastCall.op = "tc_string_content_with_len" /\ lastCall.prev = "as_str"
          /\ given.bytes = INVALID_UTF8) =>
          (lastCall.ret.bytes = INVALID_UTF8 /\ lastCall.ret.len = 7)

C10_Witness ==
    /\ lastCall.op = "tc_string_content_with_len"
    /\ lastCall.prev = "as_str"
    /\ given.bytes = INVALID_UTF8
    /\ tcstring.tag = "Bytes"
    /\ lastCall.ret.len = 7

\* C12: string_to_cstring changes the representation only of an owned
\* String without an embedded NUL, which becomes a CString of identical
\* content; a CString, a CStr, a String with a NUL and Bytes are left as
\* they were.  In every case the content bytes are the same before and
\* after the call.
C12_StringToCString ==
    lastCall.op = "string_to_cstring" =>
        LET before == lastCall.before
        IN  /\ as_bytes(tcstring) = as_bytes(before)
            /\ as_bytes(tcstring) = given.bytes
            /\ IF before.tag = "String" /\ 0 \notin {before.data[i] : i \in 1..Len(before.data)}
               THEN /\ tcstring.tag = "CString"
                    /\ tcstring.buf = before.buf
               ELSE tcstring = before

C12_Witness ==
    /\ lastCall.op = "string_to_cstring"
    /\ lastCall.before.tag = "String"
    /\ lastCall.before.data = A_STRING
    /\ tcstring.tag = "CString"

(***************************************************************************)
(* util.rs: time_t <-> Option<DateTime<Utc>>.  A DateTime is kept the way  *)
(* chrono keeps it, as a day number and the seconds within that day.       *)
(***************************************************************************)
SecsPerDay == 86400
TimeTs == {d * SecsPerDay + s : d \in (0 - MaxDay)..MaxDay, s \in {0, 1, SecsPerDay - 1}}

None == [some |-> FALSE]
Some(v) == [some |-> TRUE, val |-> v]

\* taskchampion::utc_timestamp: the instant that many seconds from the epoch.
utc_timestamp(secs) == [days |-> secs \div SecsPerDay, secs |-> secs % SecsPerDay]

\* DateTime::timestamp: seconds from the epoch.
timestamp(ts) == ts.days * SecsPerDay + ts.secs

DateTimes == {utc_timestamp(t) : t \in TimeTs}
OptionDateTimes == {None} \cup {Some(ts) : ts \in DateTimes}

\* time_t_to_chrono treating every time before the epoch as absent.
time_t_to_chrono_positive(time) ==
    IF time > 0 THEN Some(utc_timestamp(time)) ELSE None

time_t_to_chrono(time) ==
    IF time # 0 THEN Some(utc_timestamp(time)) ELSE None

chrono_to_time_t(ts) ==
    IF ts.some THEN timestamp(ts.val) ELSE 0

call_time_t_to_chrono ==
    /\ \E time \in TimeTs :
          lastCall' = [op |-> "time_t_to_chrono", time |-> time,
                       ret |-> time_t_to_chrono(time)]
    /\ UNCHANGED <<heap, serverState, valueState>>

\* arg_of holds the time_t the argument was converted from, when the
\* argument is the result of the call before.
call_chrono_to_time_t ==
    /\ \E ts \in OptionDateTimes :
          lastCall' = [op |-> "chrono_to_time_t", ts |-> ts,
                       ret |-> chrono_to_time_t(ts),
                       arg_of |-> IF lastCall.op = "time_t_to_chrono" /\ lastCall.ret = ts
                                  THEN <<lastCall.time>> ELSE <<>>]
    /\ UNCHANGED <<heap, serverState, valueState>>

InitTime == Idle

NextTime ==
    \/ call_time_t_to_chrono
    \/ call_chrono_to_time_t

SpecTime == InitTime /\ [][NextTime]_vars

InitHandles == Idle

NextHandles ==
    \/ string_list_return_val
    \/ tc_string_list_free
    \/ uda_return_val
    \/ tc_uda_free

SpecHandles == InitHandles /\ [][NextHandles]_vars

\* The heap cells that belong to the list and to the record.
ListCells(list, arr) ==
    IF list.items \in Addr
    THEN {list.items} \cup StringBufs(SubSeq(arr[list.items], 1, list.len))
    ELSE {}
UdaCells(u) == {UdaFields(u)[i].buf : i \in OwnedFields(u)}

IsListOp(c) == c.op \in {"string_list_return_val", "tc_string_list_free"}
IsUdaOp(c) == c.op \in {"uda_return_val", "tc_uda_free"}

\* A call on one value leaves the other value, and every heap cell of the
\* other value, as they were.
HandleFrame ==
    /\ IsListOp(lastCall') =>
          /\ tcuda' = tcuda
          /\ \A a \in UdaCells(tcuda) : heap'[a] = heap[a]
    /\ IsUdaOp(lastCall') =>
          /\ tcstrings' = tcstrings
          /\ arrays' = arrays
          /\ \A a \in ListCells(tcstrings, arrays) : heap'[a] = heap[a]

\* Freeing the list then the record gives the state that freeing the
\* record then the list gives.
FreesCommute ==
    (tcstrings.items # NULL /\ tcuda.ns.tag # "Uninit") =>
        LET l1 == string_list_free(tcstrings, arrays, heap)
            u2 == uda_free(tcuda, l1.heap)
            u1 == uda_free(tcuda, heap)
            l2 == string_list_free(tcstrings, arrays, u1.heap)
        IN  /\ u2.heap = l2.heap
            /\ l1.slot = l2.slot
            /\ l1.log = l2.log
            /\ u1.slot = u2.slot

\* Whatever the order of the calls was, once both values are freed no cell
\* is live and none was released twice.
FreedClean ==
    (tcstrings.items = NULL /\ HoldsNothing(tcuda)) =>
        \A a \in Addr : ~IsLive(heap, a) /\ heap[a].drops <= 1

=============================================================================
